---- MODULE Spec2Model ----
(***************************************************************************)
(* Gest-Controller: the gesture recognizer (src/gesture_recognizer.py),    *)
(* the window model and desktop controller (src/virtual_window.py) and the *)
(* per-frame loop that couples them (src/main.py).                         *)
(*                                                                         *)
(* A position is a pair <<x, y>> of integers and a missing position (None) *)
(* is the empty tuple NoPosition.  Returned values are strings: "None",    *)
(* "True", "False", a direction or an orientation.  Every method is        *)
(* modelled twice: as an operator that computes what the method computes   *)
(* from the fields it reads, and as an action that applies it to the state.*)
(***************************************************************************)
EXTENDS Integers, Sequences, FiniteSets, TLC

VARIABLES
    history_size,       \* GestureRecognizer: maxlen of the position deque
    position_history,   \* GestureRecognizer.position_history, oldest first
    gesture_cooldown,   \* GestureRecognizer.gesture_cooldown
    ret,                \* the value returned by the last method call
    since_fire,         \* history variable: update() calls since the last
                        \* firing detect_* call (-1: none since construction
                        \* or reset()), saturating at cooldown_frames
    supplied,           \* history variable: every non-None position passed
                        \* to update() since construction or reset()
    objects,            \* the VirtualWindow objects alive, by object id
    windows,            \* VirtualDesktop.windows: object ids, back to front
    active_window,      \* VirtualDesktop.active_window: an object id, or
                        \* NoWindow for None
    dragging,           \* VirtualDesktop.dragging
    drag_offset,        \* VirtualDesktop.drag_offset
    status_message,     \* VirtualDesktop.status_message
    message_timer,      \* VirtualDesktop.message_timer
    cursor_position,    \* GestureControlApp.cursor_position
    running,            \* run() is in its while loop: GestureControlApp.running
                        \* is True and the loop has not been left by break
    handled,            \* history variable: the handle_swipe / handle_push /
                        \* handle_pull calls the last frame of run() made
    moves,              \* history variable: how often the finger position
                        \* has changed from one tracked frame to the next
    frames,             \* history variable: frames run() has processed
    resets,             \* history variable: 'r' keys handled by run()
    last_call,          \* history variable: the last VirtualDesktop method
                        \* called, with its arguments; under run(), the
                        \* handle_cursor call of the last frame, if any
    grabbed,            \* history variable: where the cursor and the grabbed
                        \* window were when the last drag started
    call_count,         \* history variable: VirtualDesktop methods called
    finger,             \* history variable: the finger position the tracker
                        \* reported in the last frame of run(), NoPosition
                        \* if it saw no hand
    built               \* history variable: the arguments the recognizer and
                        \* the desktop were constructed with, and how each
                        \* construction ended ("" where there was none)

recVars == <<history_size, position_history, gesture_cooldown>>
logVars == <<since_fire, supplied>>
deskVars == <<objects, windows, active_window, dragging, drag_offset,
              status_message, message_timer>>
callVars == <<last_call, grabbed, call_count, finger, built>>
appVars == <<cursor_position, running, handled, moves, frames, resets,
             callVars>>
vars == <<history_size, position_history, gesture_cooldown, ret, since_fire,
          supplied, objects, windows, active_window, dragging, drag_offset,
          status_message, message_timer, cursor_position, running, handled,
          moves, frames, resets, last_call, grabbed,
          call_count, finger, built>>

None == "None"
True == "True"
False == "False"
NoPosition == <<>>

(***************************************************************************)
(* Program constants.                                                      *)
(***************************************************************************)
cooldown_frames == 15
MinGestureLen == 5
MinCircleLen == 8
ClosureLimit == 50
TitleBarHeight == 30
MoveAmount == 50
GrowWidth == 50
GrowHeight == 40
MaxWidth == 600
MaxHeight == 400
MinWidth == 200
MinHeight == 150
StatusFrames == 60
DefaultSwipeThreshold == 100
DefaultPushThreshold == 150
DefaultCircleThreshold == 200
DefaultWidth == 1280
DefaultHeight == 720

(***************************************************************************)
(* Bounds of the model.                                                    *)
(***************************************************************************)
MaxHistorySize == 8     \* Spec: capacities 1..MaxHistorySize are constructed
MaxSupplied == 7        \* SpecHistory: positions supplied between resets
MaxLoggedSize == 5      \* SpecHistory: capacities 0..MaxLoggedSize
MaxDetectLen == 6       \* SpecDetect: histories of 4..MaxDetectLen points
MaxCircleLen == 8       \* SpecCircle: histories of 7..MaxCircleLen points
MaxMoves == 1           \* SpecMain: changes of the tracked finger position
MaxFrames == 8          \* SpecMain: frames run() processes
MaxResets == 1          \* SpecMain: 'r' keys handled by run()
MaxCalls == 5           \* SpecDesktop: VirtualDesktop methods called
MaxPrelude == 2         \* SpecResize: calls of any kind made first
MaxResizeCalls == 8     \* SpecResize: calls made in all

(***************************************************************************)
(* Arithmetic of the detectors.                                            *)
(***************************************************************************)
Abs(n) == IF n < 0 THEN -n ELSE n

\* np.sqrt(s) < t for an integer s >= 0 and an integer t: the square root is
\* never negative, and for t > 0 it is below t exactly when s < t*t.
SqrtLess(s, t) == t > 0 /\ s < t * t

\* The least r in lo..hi with r * r >= n, by bisection.
RECURSIVE SqrtFrom(_, _, _)
SqrtFrom(n, lo, hi) ==
    IF lo >= hi THEN lo
    ELSE LET mid == (lo + hi) \div 2
         IN  IF mid * mid >= n THEN SqrtFrom(n, lo, mid)
             ELSE SqrtFrom(n, mid + 1, hi)

\* np.sqrt(n) where it is an integer.  The detect_circle runs keep to point
\* sets whose pairwise distances are integers (a 30-40-50 triangle, a
\* vertical line); anywhere else the value is undefined and TLC stops.
Sqrt(n) ==
    LET r == SqrtFrom(n, 0, n)
    IN  IF r * r = n THEN r ELSE CHOOSE x \in {} : TRUE

SquaredDistance(p1, p2) ==
    (p2[1] - p1[1]) * (p2[1] - p1[1]) + (p2[2] - p1[2]) * (p2[2] - p1[2])

(***************************************************************************)
(* GestureRecognizer.update: the deque append and the cooldown decrement.  *)
(***************************************************************************)
\* deque(maxlen=n).append(pos): a full deque drops its oldest element, and a
\* deque of maxlen 0 stays empty.
\* Mutant: a full deque refuses the new element instead of evicting the oldest.
deque_append_keep_oldest(h, n, pos) ==
    IF Len(h) >= n THEN h ELSE Append(h, pos)

deque_append(h, n, pos) ==
    IF n = 0 THEN h
    ELSE IF Len(h) >= n THEN Append(Tail(h), pos)
    ELSE Append(h, pos)

update_history(h, n, pos) ==
    IF pos # NoPosition THEN deque_append(h, n, pos) ELSE h

\* Mutant: the decrement without its guard.
update_cooldown_unguarded(c) == c - 1

\* Mutant: the cooldown expires one frame early.
update_cooldown_early(c) == IF c > 2 THEN c - 1 ELSE 0

update_cooldown(c) == IF c > 0 THEN c - 1 ELSE c

(***************************************************************************)
(* The detectors.  Each takes the history and the cooldown and gives the   *)
(* returned value and the cooldown the call leaves behind.                 *)
(***************************************************************************)
Result(r, c) == [ret |-> r, cooldown |-> c]

\* Mutant: a tie between the axes goes to the horizontal one.
swipe_direction_tie_horizontal(dx, dy) ==
    IF Abs(dx) >= Abs(dy)
    THEN (IF dx > 0 THEN "right" ELSE "left")
    ELSE (IF dy > 0 THEN "down" ELSE "up")

swipe_direction(dx, dy) ==
    IF Abs(dx) > Abs(dy)
    THEN (IF dx > 0 THEN "right" ELSE "left")
    ELSE (IF dy > 0 THEN "down" ELSE "up")

\* Mutant: a firing swipe does not arm the cooldown.
detect_swipe_unarmed(h, c, direction, threshold) ==
    IF Len(h) < MinGestureLen THEN Result(None, c)
    ELSE
        LET start == h[1]
            end == h[Len(h)]
            dx == end[1] - start[1]
            dy == end[2] - start[2]
            detected_direction == swipe_direction(dx, dy)
        IN  IF SqrtLess(dx * dx + dy * dy, threshold) THEN Result(None, c)
            ELSE IF (direction = "any" \/ direction = detected_direction)
                    /\ c = 0
                 THEN Result(detected_direction, c)
                 ELSE Result(None, c)

detect_swipe(h, c, direction, threshold) ==
    IF Len(h) < MinGestureLen THEN Result(None, c)
    ELSE
        LET start == h[1]
            end == h[Len(h)]
            dx == end[1] - start[1]
            dy == end[2] - start[2]
            detected_direction == swipe_direction(dx, dy)
        IN  IF SqrtLess(dx * dx + dy * dy, threshold) THEN Result(None, c)
            ELSE IF (direction = "any" \/ direction = detected_direction)
                    /\ c = 0
                 THEN Result(detected_direction, cooldown_frames)
                 ELSE Result(None, c)

\* Mutant: a displacement equal to the threshold counts as a push.
detect_push_inclusive(h, c, threshold) ==
    IF Len(h) < MinGestureLen THEN Result(False, c)
    ELSE
        LET dy == h[Len(h)][2] - h[1][2]
        IN  IF dy >= threshold /\ c = 0
            THEN Result(True, cooldown_frames)
            ELSE Result(False, c)

\* Mutant: the push has a cooldown of its own, which is never armed.
detect_push_own_cooldown(h, c, threshold) ==
    IF Len(h) < MinGestureLen THEN Result(False, c)
    ELSE
        LET dy == h[Len(h)][2] - h[1][2]
        IN  IF dy > threshold
            THEN Result(True, c)
            ELSE Result(False, c)

detect_push(h, c, threshold) ==
    IF Len(h) < MinGestureLen THEN Result(False, c)
    ELSE
        LET dy == h[Len(h)][2] - h[1][2]
        IN  IF dy > threshold /\ c = 0
            THEN Result(True, cooldown_frames)
            ELSE Result(False, c)

\* Mutant: the cooldown is armed before the cooldown test, so a refused pull
\* restarts it.
detect_pull_rearming(h, c, threshold) ==
    IF Len(h) < MinGestureLen THEN Result(False, c)
    ELSE
        LET dy == h[Len(h)][2] - h[1][2]
        IN  IF dy < -threshold
            THEN Result(IF c = 0 THEN True ELSE False, cooldown_frames)
            ELSE Result(False, c)

\* Mutant: the pull tests the size of the displacement, whatever its sign.
detect_pull_unsigned(h, c, threshold) ==
    IF Len(h) < MinGestureLen THEN Result(False, c)
    ELSE
        LET dy == h[Len(h)][2] - h[1][2]
        IN  IF Abs(dy) > threshold /\ c = 0
            THEN Result(True, cooldown_frames)
            ELSE Result(False, c)

detect_pull(h, c, threshold) ==
    IF Len(h) < MinGestureLen THEN Result(False, c)
    ELSE
        LET dy == h[Len(h)][2] - h[1][2]
        IN  IF dy < -threshold /\ c = 0
            THEN Result(True, cooldown_frames)
            ELSE Result(False, c)

\* Mutant: each segment overwrites the total, leaving the last one's length.
total_distance_overwritten(h, i) ==
    Sqrt(SquaredDistance(h[Len(h) - 1], h[Len(h)]))

\* total_distance: the accumulated length of the consecutive segments.
RECURSIVE total_distance(_, _)
total_distance(h, i) ==
    IF i > Len(h) THEN 0
    ELSE Sqrt(SquaredDistance(h[i - 1], h[i])) + total_distance(h, i + 1)

\* cross_sum: the sum of (x[i] - x[i-1]) * (y[i] + y[i-1]).
RECURSIVE cross_sum(_, _)
cross_sum(h, i) ==
    IF i > Len(h) THEN 0
    ELSE (h[i][1] - h[i - 1][1]) * (h[i][2] + h[i - 1][2])
         + cross_sum(h, i + 1)

detect_circle(h, c, threshold) ==
    IF Len(h) < MinCircleLen THEN Result(None, c)
    ELSE IF total_distance(h, 2) < threshold THEN Result(None, c)
    ELSE IF SqrtLess(SquaredDistance(h[1], h[Len(h)]), ClosureLimit) /\ c = 0
         THEN Result(IF cross_sum(h, 2) > 0 THEN "clockwise"
                     ELSE "counterclockwise", cooldown_frames)
         ELSE Result(None, c)

(***************************************************************************)
(* VirtualWindow.  A window is an object: the desktop's list and its       *)
(* active_window hold references (object ids) to it, so a change made      *)
(* through one reference is seen through the other.  color and             *)
(* original_pos are never read by the logic and are left out.              *)
(***************************************************************************)
NoWindow == 0

VirtualWindow(x, y, width, height, title) ==
    [x |-> x, y |-> y, width |-> width, height |-> height, title |-> title,
     is_active |-> FALSE, is_minimized |-> FALSE]

\* Mutant: the right and bottom edges are outside the window.
contains_point_half_open(w, px, py) ==
    IF w.is_minimized THEN FALSE
    ELSE /\ w.x <= px /\ px < w.x + w.width
         /\ w.y <= py /\ py < w.y + w.height

contains_point(w, px, py) ==
    IF w.is_minimized THEN FALSE
    ELSE /\ w.x <= px /\ px <= w.x + w.width
         /\ w.y <= py /\ py <= w.y + w.height

in_title_bar(w, px, py) ==
    IF w.is_minimized THEN FALSE
    ELSE /\ w.x <= px /\ px <= w.x + w.width
         /\ w.y <= py /\ py <= w.y + TitleBarHeight

\* Mutant: the window is kept from leaving the desktop at the left and top.
move_clamped(w, dx, dy) ==
    [w EXCEPT !.x = IF @ + dx < 0 THEN 0 ELSE @ + dx,
              !.y = IF @ + dy < 0 THEN 0 ELSE @ + dy]

move(w, dx, dy) == [w EXCEPT !.x = @ + dx, !.y = @ + dy]

\* Mutant: the arguments are taken for a displacement, as move takes them.
set_position_as_move(w, x, y) == [w EXCEPT !.x = @ + x, !.y = @ + y]

set_position(w, x, y) == [w EXCEPT !.x = x, !.y = y]

toggle_minimize(w) == [w EXCEPT !.is_minimized = ~@]

Truth(b) == IF b THEN True ELSE False

(***************************************************************************)
(* VirtualDesktop.  Its methods are operators on the record D of its       *)
(* fields (and of the window objects), so that a frame of run() can apply  *)
(* several of them in a row.                                               *)
(***************************************************************************)
Desktop ==
    [objects |-> objects, windows |-> windows,
     active_window |-> active_window, dragging |-> dragging,
     drag_offset |-> drag_offset, status_message |-> status_message,
     message_timer |-> message_timer]

Range(seq) == {seq[i] : i \in DOMAIN seq}

\* Object ids.  _create_demo_windows makes three new objects, which take the
\* ids 1..3; the only older object that can still be referenced is the one
\* active_window holds, which moves to OrphanId.
DemoIds == <<1, 2, 3>>
OrphanId == 4

DemoWindows ==
    (1 :> VirtualWindow(100, 100, 300, 200, "Notes"))
    @@ (2 :> VirtualWindow(450, 150, 350, 250, "Browser"))
    @@ (3 :> VirtualWindow(250, 350, 280, 180, "Music"))

\* Objects no reference leads to are dropped.
Collected(D) ==
    [D EXCEPT !.objects =
        [o \in (Range(D.windows) \cup {D.active_window}) \ {NoWindow}
            |-> D.objects[o]]]

create_demo_windows(D) ==
    LET old == D.active_window
        kept == IF old = NoWindow THEN <<>> ELSE (OrphanId :> D.objects[old])
    IN  [D EXCEPT !.objects = kept @@ DemoWindows,
                  !.windows = DemoIds,
                  !.active_window = IF old = NoWindow THEN NoWindow
                                    ELSE OrphanId]

set_status(D, message) ==
    [D EXCEPT !.status_message = message, !.message_timer = StatusFrames]

\* VirtualDesktop(): the fields, the demo windows, the welcome message.
NewDesktop ==
    [create_demo_windows(
        [objects |-> <<>>, windows |-> <<>>, active_window |-> NoWindow,
         dragging |-> FALSE, drag_offset |-> <<0, 0>>,
         status_message |-> <<>>, message_timer |-> 0])
     EXCEPT !.status_message =
                <<"Welcome! Use hand gestures to control windows">>,
            !.message_timer = 0]

\* render(): of all it does, only the countdown of the message changes state.
render(D) ==
    IF D.message_timer > 0 THEN [D EXCEPT !.message_timer = @ - 1] ELSE D

\* Mutant: the loop runs over self.windows, back to front.
clicked_window_backmost(D, x, y) ==
    LET hits == {i \in DOMAIN D.windows :
                    contains_point(D.objects[D.windows[i]], x, y)}
    IN  IF hits = {} THEN NoWindow
        ELSE D.windows[CHOOSE i \in hits : \A j \in hits : i <= j]

\* The front-most window containing the point: the first hit of the loop
\* over reversed(self.windows).
clicked_window(D, x, y) ==
    LET hits == {i \in DOMAIN D.windows :
                    contains_point(D.objects[D.windows[i]], x, y)}
    IN  IF hits = {} THEN NoWindow
        ELSE D.windows[CHOOSE i \in hits : \A j \in hits : j <= i]

\* Mutant: the window is appended without being removed first.
Without_nothing(seq, id) == seq

Without(seq, id) == SelectSeq(seq, LAMBDA o : o # id)

\* Mutant: the window is put back at the start of the list.
bring_to_front_as_first(D, window) ==
    IF window \in Range(D.windows)
    THEN [D EXCEPT
            !.windows = <<window>> \o Without(D.windows, window),
            !.objects = [o \in DOMAIN D.objects |->
                IF o \in Range(D.windows) /\ o # window
                THEN [D.objects[o] EXCEPT !.is_active = FALSE]
                ELSE D.objects[o]]]
    ELSE D

\* Mutant: the other windows are not deactivated.
bring_to_front_keeps_active(D, window) ==
    IF window \in Range(D.windows)
    THEN [D EXCEPT !.windows = Append(Without(D.windows, window), window)]
    ELSE D

bring_to_front(D, window) ==
    IF window \in Range(D.windows)
    THEN [D EXCEPT
            !.windows = Append(Without(D.windows, window), window),
            !.objects = [o \in DOMAIN D.objects |->
                IF o \in Range(D.windows) /\ o # window
                THEN [D.objects[o] EXCEPT !.is_active = FALSE]
                ELSE D.objects[o]]]
    ELSE D

\* Mutant: the window is repositioned whenever there is an active window,
\* dragging or not.
handle_cursor_follows(D, x, y, is_pinching) ==
    LET clicked == clicked_window(D, x, y)
        pressed ==
            IF is_pinching
            THEN IF /\ ~D.dragging
                    /\ clicked # NoWindow
                    /\ in_title_bar(D.objects[clicked], x, y)
                 THEN LET started ==
                              [D EXCEPT
                                  !.dragging = TRUE,
                                  !.active_window = clicked,
                                  !.drag_offset = <<x - D.objects[clicked].x,
                                                    y - D.objects[clicked].y>>]
                          fronted == bring_to_front(started, clicked)
                      IN  Collected([fronted EXCEPT
                              !.objects[clicked].is_active = TRUE])
                 ELSE D
            ELSE [D EXCEPT !.dragging = FALSE]
    IN  IF pressed.active_window # NoWindow
        THEN [pressed EXCEPT !.objects[pressed.active_window] =
                 set_position(@, x - pressed.drag_offset[1],
                                 y - pressed.drag_offset[2])]
        ELSE pressed

\* Mutant: releasing the pinch does not end the drag.
handle_cursor_sticky(D, x, y, is_pinching) ==
    LET clicked == clicked_window(D, x, y)
        pressed ==
            IF is_pinching
            THEN IF /\ ~D.dragging
                    /\ clicked # NoWindow
                    /\ in_title_bar(D.objects[clicked], x, y)
                 THEN LET started ==
                              [D EXCEPT
                                  !.dragging = TRUE,
                                  !.active_window = clicked,
                                  !.drag_offset = <<x - D.objects[clicked].x,
                                                    y - D.objects[clicked].y>>]
                          fronted == bring_to_front(started, clicked)
                      IN  Collected([fronted EXCEPT
                              !.objects[clicked].is_active = TRUE])
                 ELSE D
            ELSE D
    IN  IF pressed.dragging /\ pressed.active_window # NoWindow
        THEN [pressed EXCEPT !.objects[pressed.active_window] =
                 set_position(@, x - pressed.drag_offset[1],
                                 y - pressed.drag_offset[2])]
        ELSE pressed

handle_cursor(D, x, y, is_pinching) ==
    LET clicked == clicked_window(D, x, y)
        pressed ==
            IF is_pinching
            THEN IF /\ ~D.dragging
                    /\ clicked # NoWindow
                    /\ in_title_bar(D.objects[clicked], x, y)
                 THEN LET started ==
                              [D EXCEPT
                                  !.dragging = TRUE,
                                  !.active_window = clicked,
                                  !.drag_offset = <<x - D.objects[clicked].x,
                                                    y - D.objects[clicked].y>>]
                          fronted == bring_to_front(started, clicked)
                      IN  Collected([fronted EXCEPT
                              !.objects[clicked].is_active = TRUE])
                 ELSE D
            ELSE [D EXCEPT !.dragging = FALSE]
    IN  IF pressed.dragging /\ pressed.active_window # NoWindow
        THEN [pressed EXCEPT !.objects[pressed.active_window] =
                 set_position(@, x - pressed.drag_offset[1],
                                 y - pressed.drag_offset[2])]
        ELSE pressed

\* Mutant: moving the active window lets go of it.
moved_by_releasing(D, dx, dy, direction) ==
    LET moved == [D EXCEPT !.objects[D.active_window] = move(@, dx, dy),
                           !.dragging = FALSE]
    IN  set_status(moved,
                   <<"Moved", D.objects[D.active_window].title, direction>>)

moved_by(D, dx, dy, direction) ==
    LET moved == [D EXCEPT !.objects[D.active_window] = move(@, dx, dy)]
    IN  set_status(moved,
                   <<"Moved", D.objects[D.active_window].title, direction>>)

\* Mutant: no return after the activation, so the first swipe moves too.
handle_swipe_falls_through(D, direction) ==
    LET A == IF D.active_window = NoWindow /\ D.windows # <<>>
             THEN LET top == D.windows[Len(D.windows)]
                  IN  [D EXCEPT !.active_window = top,
                                !.objects[top].is_active = TRUE]
             ELSE D
    IN  IF A.active_window = NoWindow THEN A
        ELSE CASE direction = "left" -> moved_by(A, -MoveAmount, 0, direction)
               [] direction = "right" -> moved_by(A, MoveAmount, 0, direction)
               [] direction = "up" -> moved_by(A, 0, -MoveAmount, direction)
               [] direction = "down" -> moved_by(A, 0, MoveAmount, direction)
               [] OTHER -> A

handle_swipe(D, direction) ==
    IF D.active_window = NoWindow
    THEN IF D.windows # <<>>
         THEN LET top == D.windows[Len(D.windows)]
              IN  [D EXCEPT !.active_window = top,
                            !.objects[top].is_active = TRUE]
         ELSE D
    ELSE CASE direction = "left" -> moved_by(D, -MoveAmount, 0, direction)
           [] direction = "right" -> moved_by(D, MoveAmount, 0, direction)
           [] direction = "up" -> moved_by(D, 0, -MoveAmount, direction)
           [] direction = "down" -> moved_by(D, 0, MoveAmount, direction)
           [] OTHER -> D

\* Mutant: the cap is not applied.
Smaller_first(a, b) == a

Smaller(a, b) == IF a < b THEN a ELSE b

\* Mutant: min where max was meant.
Larger_is_min(a, b) == IF a < b THEN a ELSE b
Larger(a, b) == IF a > b THEN a ELSE b

handle_push(D) ==
    IF D.active_window # NoWindow
    THEN set_status(
            [D EXCEPT !.objects[D.active_window] =
                [@ EXCEPT !.width = Smaller(@ + GrowWidth, MaxWidth),
                          !.height = Smaller(@ + GrowHeight, MaxHeight)]],
            <<"Enlarged", D.objects[D.active_window].title>>)
    ELSE D

handle_pull(D) ==
    IF D.active_window # NoWindow
    THEN set_status(
            [D EXCEPT !.objects[D.active_window] =
                [@ EXCEPT !.width = Larger(@ - GrowWidth, MinWidth),
                          !.height = Larger(@ - GrowHeight, MinHeight)]],
            <<"Shrunk", D.objects[D.active_window].title>>)
    ELSE D

SetDesktop(D) ==
    /\ objects' = D.objects
    /\ windows' = D.windows
    /\ active_window' = D.active_window
    /\ dragging' = D.dragging
    /\ drag_offset' = D.drag_offset
    /\ status_message' = D.status_message
    /\ message_timer' = D.message_timer

\* The desktop's fields are those of D.
SetDesktopTo(D) ==
    /\ objects = D.objects
    /\ windows = D.windows
    /\ active_window = D.active_window
    /\ dragging = D.dragging
    /\ drag_offset = D.drag_offset
    /\ status_message = D.status_message
    /\ message_timer = D.message_timer

(***************************************************************************)
(* The recognizer's methods as actions.                                    *)
(***************************************************************************)
Fired(r) == r # None /\ r # False

UpdateCall(pos) ==
    /\ position_history' = update_history(position_history, history_size, pos)
    /\ gesture_cooldown' = update_cooldown(gesture_cooldown)
    /\ ret' = None
    /\ since_fire' = IF since_fire >= 0 /\ since_fire < cooldown_frames
                     THEN since_fire + 1 ELSE since_fire
    /\ UNCHANGED <<history_size, deskVars, appVars>>

Update(pos) == UpdateCall(pos) /\ UNCHANGED supplied

Detected(res) ==
    /\ gesture_cooldown' = res.cooldown
    /\ ret' = res.ret
    /\ since_fire' = IF Fired(res.ret) THEN 0 ELSE since_fire
    /\ UNCHANGED <<history_size, position_history, supplied, deskVars,
                   appVars>>

DetectSwipe(direction, threshold) ==
    Detected(detect_swipe(position_history, gesture_cooldown, direction,
                          threshold))

DetectPush(threshold) ==
    Detected(detect_push(position_history, gesture_cooldown, threshold))

DetectPull(threshold) ==
    Detected(detect_pull(position_history, gesture_cooldown, threshold))

DetectCircle(threshold) ==
    Detected(detect_circle(position_history, gesture_cooldown, threshold))

Reset ==
    /\ position_history' = <<>>
    /\ gesture_cooldown' = 0
    /\ ret' = None
    /\ since_fire' = -1
    /\ supplied' = <<>>
    /\ UNCHANGED <<history_size, deskVars, appVars>>

\* The constructors.  GestureRecognizer(history_size) makes
\* deque(maxlen = history_size), which raises ValueError for a negative
\* maxlen and accepts every other; VirtualDesktop(width, height) stores its
\* arguments, whatever they are.
GestureRecognizer_init(n) == IF n < 0 THEN "ValueError" ELSE "ok"
VirtualDesktop_init(width, height) == "ok"

NotBuilt ==
    [history_size |-> 0, recognizer |-> "", width |-> 0, height |-> 0,
     desktop |-> ""]
WithRecognizer(B, n) ==
    [B EXCEPT !.history_size = n, !.recognizer = GestureRecognizer_init(n)]
WithDesktop(B, width, height) ==
    [B EXCEPT !.width = width, !.height = height,
              !.desktop = VirtualDesktop_init(width, height)]

\* No VirtualDesktop method has been called.
NoCall == [op |-> "", x |-> 0, y |-> 0, is_pinching |-> FALSE, direction |-> ""]
NoCalls ==
    /\ finger = NoPosition
    /\ last_call = NoCall
    /\ grabbed = <<>>
    /\ call_count = 0

\* No application: the recognizer or the desktop is used on its own.
NoApp ==
    /\ cursor_position = NoPosition
    /\ running = FALSE
    /\ handled = {}
    /\ moves = 0
    /\ frames = 0
    /\ resets = 0
    /\ NoCalls

\* No desktop: the recognizer is used on its own.
NoDesktop ==
    /\ objects = <<>>
    /\ windows = <<>>
    /\ active_window = NoWindow
    /\ dragging = FALSE
    /\ drag_offset = <<0, 0>>
    /\ status_message = <<>>
    /\ message_timer = 0
    /\ NoApp

\* GestureRecognizer(history_size = n)
Constructed(n) ==
    /\ history_size = n
    /\ position_history = <<>>
    /\ gesture_cooldown = 0
    /\ ret = None
    /\ since_fire = -1
    /\ supplied = <<>>
    /\ built = WithRecognizer(NotBuilt, n)
    /\ NoDesktop

(***************************************************************************)
(* Spec: one recognizer of any capacity 1..MaxHistorySize, its methods     *)
(* called in any order.  The positions lie on a vertical line, 200 apart,  *)
(* which is enough for every detector to fire.                             *)
(***************************************************************************)
LinePoints == {<<0, 0>>, <<0, 200>>}
Directions == {"any", "left", "right", "up", "down"}
LineSwipeThresholds == {DefaultSwipeThreshold, 300}
LinePushThresholds == {DefaultPushThreshold, 200}
LineCircleThresholds == {DefaultCircleThreshold, 2000}

Init == \E n \in 1..MaxHistorySize : Constructed(n)

Next ==
    \/ \E pos \in LinePoints \cup {NoPosition} : Update(pos)
    \/ \E d \in {"any", "up", "left"}, t \in LineSwipeThresholds :
          DetectSwipe(d, t)
    \/ \E t \in LinePushThresholds : DetectPush(t)
    \/ \E t \in LinePushThresholds : DetectPull(t)
    \/ \E t \in LineCircleThresholds : DetectCircle(t)
    \/ Reset

Spec == Init /\ [][Next]_vars

(***************************************************************************)
(* SpecHistory: the same recognizer with every supplied position logged,   *)
(* capacities 0..MaxLoggedSize, at most MaxSupplied positions per log.     *)
(***************************************************************************)
UpdateLogged(pos) ==
    /\ pos # NoPosition => Len(supplied) < MaxSupplied
    /\ UpdateCall(pos)
    /\ supplied' = IF pos # NoPosition THEN Append(supplied, pos)
                   ELSE supplied

InitHistory == \E n \in 0..MaxLoggedSize : Constructed(n)

NextHistory ==
    \/ \E pos \in LinePoints \cup {NoPosition} : UpdateLogged(pos)
    \/ DetectSwipe("any", DefaultSwipeThreshold)
    \/ DetectPush(DefaultPushThreshold)
    \/ DetectPull(DefaultPushThreshold)
    \/ DetectCircle(DefaultCircleThreshold)
    \/ Reset

SpecHistory == InitHistory /\ [][NextHistory]_vars

(***************************************************************************)
(* SpecDetect: detect_swipe, detect_push and detect_pull as functions of   *)
(* their inputs.  The recognizer starts with a drawn history and cooldown. *)
(* The ends of the history range over a 3 x 3 grid of step 150 (all four   *)
(* directions, ties between the axes, displacements equal to a threshold), *)
(* the points between them over two grid points.                           *)
(***************************************************************************)
AppHistorySize == 10
GridCoordinates == {0, 150, 300}
GridPoints == GridCoordinates \X GridCoordinates
FillerPoints == {<<0, 0>>, <<300, 150>>}
GridHistories ==
    UNION {
        {h \in [1..n -> GridPoints] :
            \A i \in 2..(n - 1) : h[i] \in FillerPoints} :
        n \in 4..MaxDetectLen}
DrawnCooldowns == {0, 3}
GridSwipeThresholds == {-50, 0, DefaultSwipeThreshold, 150, 200, 450}
GridPushThresholds == {-50, 0, DefaultPushThreshold, 300}

Drawn(h, c) ==
    /\ history_size = AppHistorySize
    /\ position_history = h
    /\ gesture_cooldown = c
    /\ ret = None
    /\ since_fire = -1
    /\ supplied = <<>>
    /\ built = WithRecognizer(NotBuilt, AppHistorySize)
    /\ NoDesktop

InitDetect == \E h \in GridHistories, c \in DrawnCooldowns : Drawn(h, c)

NextDetect ==
    \/ \E d \in Directions, t \in GridSwipeThresholds : DetectSwipe(d, t)
    \/ \E t \in GridPushThresholds : DetectPush(t)
    \/ \E t \in GridPushThresholds : DetectPull(t)

SpecDetect == InitDetect /\ [][NextDetect]_vars

(***************************************************************************)
(* SpecCircle: detect_circle as a function of its inputs, on every history *)
(* of 7..MaxCircleLen points over the corners of a 30-40-50 triangle.      *)
(***************************************************************************)
TrianglePoints == {<<0, 0>>, <<30, 0>>, <<0, 40>>}
TriangleHistories ==
    UNION {[1..n -> TrianglePoints] : n \in 7..MaxCircleLen}
TriangleThresholds == {DefaultCircleThreshold, 100, 300}

InitCircle ==
    \E h \in TriangleHistories, c \in DrawnCooldowns : Drawn(h, c)

NextCircle == \E t \in TriangleThresholds : DetectCircle(t)

SpecCircle == InitCircle /\ [][NextCircle]_vars

(***************************************************************************)
(* SpecWindow: one VirtualWindow object and its methods, called in any     *)
(* order.  The window is constructed at one of 3 x 3 positions in one of   *)
(* 2 x 2 sizes (one of them lower than the title bar) and stays on them.   *)
(***************************************************************************)
WindowCoordinates == {0, 10, 20}
WindowWidths == {20, 40}
WindowHeights == {20, 40}
MaxProbe == 62
ProbeCoordinates == -1..MaxProbe

TheWindow == objects[1]

WindowCall(w, r) ==
    /\ objects' = [objects EXCEPT ![1] = w]
    /\ ret' = r
    /\ UNCHANGED <<recVars, logVars, windows, active_window, dragging,
                   drag_offset, status_message, message_timer, appVars>>

ContainsPoint(px, py) ==
    WindowCall(TheWindow, Truth(contains_point(TheWindow, px, py)))

InTitleBar(px, py) ==
    WindowCall(TheWindow, Truth(in_title_bar(TheWindow, px, py)))

Move(dx, dy) ==
    /\ TheWindow.x + dx \in WindowCoordinates
    /\ TheWindow.y + dy \in WindowCoordinates
    /\ WindowCall(move(TheWindow, dx, dy), None)

SetPosition(x, y) == WindowCall(set_position(TheWindow, x, y), None)

ToggleMinimize == WindowCall(toggle_minimize(TheWindow), None)

InitWindow ==
    /\ built = NotBuilt
    /\ \E x \in WindowCoordinates, y \in WindowCoordinates,
          w \in WindowWidths, h \in WindowHeights :
          objects = (1 :> VirtualWindow(x, y, w, h, "Notes"))
    /\ windows = <<>>
    /\ active_window = NoWindow
    /\ dragging = FALSE
    /\ drag_offset = <<0, 0>>
    /\ status_message = <<>>
    /\ message_timer = 0
    /\ NoApp
    /\ history_size = 0
    /\ position_history = <<>>
    /\ gesture_cooldown = 0
    /\ ret = None
    /\ since_fire = -1
    /\ supplied = <<>>

NextWindow ==
    \/ \E px \in ProbeCoordinates, py \in ProbeCoordinates :
          ContainsPoint(px, py)
    \/ \E px \in ProbeCoordinates, py \in ProbeCoordinates :
          InTitleBar(px, py)
    \/ \E dx \in {-10, 0, 10}, dy \in {-10, 0, 10} : Move(dx, dy)
    \/ \E x \in WindowCoordinates, y \in WindowCoordinates :
          SetPosition(x, y)
    \/ ToggleMinimize

SpecWindow == InitWindow /\ [][NextWindow]_vars

(***************************************************************************)
(* SpecDesktop: one VirtualDesktop as constructed, its handlers called in  *)
(* any order, and the reset the 'r' key of run() performs.  The cursor     *)
(* visits four points of the desktop: the title bar of Music where Browser *)
(* lies behind it, two points of the title bar of Browser, and a point of  *)
(* empty desktop.  Dragging Music from the first to the second point puts  *)
(* its body over the third.                                                *)
(***************************************************************************)
CursorPoints == {<<460, 360>>, <<460, 150>>, <<460, 175>>, <<900, 600>>}
SwipeDirections == {"left", "right", "up", "down"}

Called(D, call) ==
    /\ SetDesktop(D)
    /\ last_call' = call
    /\ call_count' = call_count + 1
    /\ UNCHANGED <<recVars, ret, logVars, cursor_position, running, handled,
                   moves, frames, finger, built>>

DesktopCall(D, call) ==
    /\ call_count < MaxCalls
    /\ Called(D, call)

HandleCursor(x, y, is_pinching) ==
    LET D == handle_cursor(Desktop, x, y, is_pinching)
        clicked == clicked_window(Desktop, x, y)
    IN  /\ DesktopCall(D, [NoCall EXCEPT !.op = "handle_cursor", !.x = x,
                                         !.y = y, !.is_pinching = is_pinching])
        /\ grabbed' = IF ~dragging /\ D.dragging
                      THEN <<x, y, objects[clicked].x, objects[clicked].y>>
                      ELSE grabbed
        /\ UNCHANGED resets

HandleSwipe(direction) ==
    /\ DesktopCall(handle_swipe(Desktop, direction),
                   [NoCall EXCEPT !.op = "handle_swipe",
                                  !.direction = direction])
    /\ UNCHANGED <<grabbed, resets>>

HandlePush ==
    /\ DesktopCall(handle_push(Desktop), [NoCall EXCEPT !.op = "handle_push"])
    /\ UNCHANGED <<grabbed, resets>>

HandlePull ==
    /\ DesktopCall(handle_pull(Desktop), [NoCall EXCEPT !.op = "handle_pull"])
    /\ UNCHANGED <<grabbed, resets>>

\* What run() does on the 'r' key.
reset_desktop(D) ==
    set_status(create_demo_windows(D),
               <<"Windows reset to default positions">>)

ResetDesktop ==
    /\ DesktopCall(reset_desktop(Desktop), [NoCall EXCEPT !.op = "reset"])
    /\ resets' = resets + 1
    /\ UNCHANGED grabbed

InitDesktop ==
    /\ built = WithDesktop(NotBuilt, DefaultWidth, DefaultHeight)
    /\ SetDesktopTo(NewDesktop)
    /\ NoApp
    /\ history_size = 0
    /\ position_history = <<>>
    /\ gesture_cooldown = 0
    /\ ret = None
    /\ since_fire = -1
    /\ supplied = <<>>

NextDesktop ==
    \/ \E p \in CursorPoints, is_pinching \in BOOLEAN :
          HandleCursor(p[1], p[2], is_pinching)
    \/ \E direction \in SwipeDirections : HandleSwipe(direction)
    \/ HandlePush
    \/ HandlePull
    \/ ResetDesktop

SpecDesktop == InitDesktop /\ [][NextDesktop]_vars

(***************************************************************************)
(* SpecResize: the same desktop, where after MaxPrelude calls of any kind  *)
(* only handle_push and handle_pull are called, often enough to reach the  *)
(* largest and the smallest size from the demo windows.                    *)
(***************************************************************************)
Prelude ==
    /\ call_count < MaxPrelude
    /\ NextDesktop

PushAgain ==
    /\ call_count < MaxResizeCalls
    /\ Called(handle_push(Desktop), [NoCall EXCEPT !.op = "handle_push"])
    /\ UNCHANGED <<grabbed, resets>>

PullAgain ==
    /\ call_count < MaxResizeCalls
    /\ Called(handle_pull(Desktop), [NoCall EXCEPT !.op = "handle_pull"])
    /\ UNCHANGED <<grabbed, resets>>

NextResize ==
    \/ Prelude
    \/ PushAgain
    \/ PullAgain

SpecResize == InitDesktop /\ [][NextResize]_vars

(***************************************************************************)
(* SpecConstruct: a recognizer and a desktop constructed with arguments    *)
(* that include zero and negative ones, then used where the construction   *)
(* has returned an object.                                                 *)
(***************************************************************************)
CapacitiesTried == {-1, 0, 1, 2}
SizesTried == {<<0, 0>>, <<-1, 720>>, <<1280, 0>>, <<1280, 720>>}

InitConstruct ==
    \E n \in CapacitiesTried, size \in SizesTried :
        /\ built = WithDesktop(WithRecognizer(NotBuilt, n), size[1], size[2])
        /\ history_size = IF built.recognizer = "ok" THEN n ELSE 0
        /\ position_history = <<>>
        /\ gesture_cooldown = 0
        /\ ret = IF built.recognizer = "ok" THEN None ELSE built.recognizer
        /\ since_fire = -1
        /\ supplied = <<>>
        /\ built.desktop = "ok"
        /\ SetDesktopTo(NewDesktop)
        /\ NoApp

NextConstruct ==
    \/ /\ built.recognizer = "ok"
       /\ \E pos \in {<<0, 0>>, NoPosition} : UpdateLogged(pos)
    \/ /\ built.recognizer = "ok"
       /\ DetectPush(DefaultPushThreshold)
    \/ /\ built.desktop = "ok"
       /\ HandleSwipe("left")
    \/ /\ built.desktop = "ok"
       /\ HandlePush

SpecConstruct == InitConstruct /\ [][NextConstruct]_vars

(***************************************************************************)
(* GestureControlApp.run: one iteration of the loop is one action.         *)
(***************************************************************************)
FrameWidth == 640
FrameHeight == 480
DesktopWidth == 1280
DesktopHeight == 720

\* int((x / 640) * 1280) and int((y / 480) * 720) in double arithmetic, for
\* x in 0..640 and y in 0..480: the first is 2x; the second is the floor of
\* 1.5y except at twelve y, where the product falls just below an integer.
RoundedDown == {42, 84, 138, 146, 168, 246, 262, 276, 292, 306, 322, 336}
desktop_x(x) == (x * DesktopWidth) \div FrameWidth
desktop_y(y) ==
    (y * DesktopHeight) \div FrameHeight - (IF y \in RoundedDown THEN 1 ELSE 0)

\* What the hand tracker reports in one frame: the index finger tip, whether
\* thumb and index pinch, how many fingers are up.  With no hand in the
\* frame it reports None, False and 0.
Tracked(finger_pos, is_pinching, fingers_up) ==
    finger_pos = NoPosition => ~is_pinching /\ fingers_up = 0

Frame(finger_pos, is_pinching, fingers_up, key) ==
    LET history == update_history(position_history, history_size, finger_pos)
        cooled == update_cooldown(gesture_cooldown)
        cursor == IF finger_pos # NoPosition
                  THEN <<desktop_x(finger_pos[1]), desktop_y(finger_pos[2])>>
                  ELSE cursor_position
        pointed == IF cursor # NoPosition
                   THEN handle_cursor(Desktop, cursor[1], cursor[2],
                                      is_pinching)
                   ELSE Desktop
        swipe == IF fingers_up = 5
                 THEN detect_swipe(history, cooled, "any",
                                   DefaultSwipeThreshold)
                 ELSE Result(None, cooled)
        swiped == IF Fired(swipe.ret) THEN handle_swipe(pointed, swipe.ret)
                  ELSE pointed
        push == detect_push(history, swipe.cooldown, DefaultPushThreshold)
        pushed == IF Fired(push.ret) THEN handle_push(swiped) ELSE swiped
        pull == detect_pull(history, push.cooldown, DefaultPushThreshold)
        pulled == IF Fired(pull.ret) THEN handle_pull(pushed) ELSE pushed
        rendered == render(pulled)
        keyed == IF key = "r" THEN reset_desktop(rendered) ELSE rendered
        calls == {"handle_swipe" : x \in {1} \cap
                                        (IF Fired(swipe.ret) THEN {1} ELSE {})}
                 \cup {"handle_push" : x \in {1} \cap
                                        (IF Fired(push.ret) THEN {1} ELSE {})}
                 \cup {"handle_pull" : x \in {1} \cap
                                        (IF Fired(pull.ret) THEN {1} ELSE {})}
        moved == /\ finger_pos # NoPosition
                 /\ position_history # <<>>
                 /\ finger_pos # position_history[Len(position_history)]
    IN  /\ running
        /\ Tracked(finger_pos, is_pinching, fingers_up)
        /\ moved => moves < MaxMoves
        /\ frames < MaxFrames
        /\ key = "r" => resets < MaxResets
        /\ position_history' = history
        /\ gesture_cooldown' = pull.cooldown
        /\ cursor_position' = cursor
        /\ SetDesktop(keyed)
        /\ running' = (key # "q")
        /\ handled' = calls
        /\ moves' = IF moved THEN moves + 1 ELSE moves
        /\ frames' = frames + 1
        /\ resets' = IF key = "r" THEN resets + 1 ELSE resets
        /\ since_fire' = IF calls # {} THEN 0
                         ELSE IF since_fire >= 0 /\ since_fire < cooldown_frames
                         THEN since_fire + 1 ELSE since_fire
        /\ ret' = None
        /\ finger' = finger_pos
        /\ last_call' = IF cursor # NoPosition
                        THEN [NoCall EXCEPT !.op = "handle_cursor",
                                            !.x = cursor[1], !.y = cursor[2],
                                            !.is_pinching = is_pinching]
                        ELSE NoCall
        /\ UNCHANGED <<history_size, supplied, grabbed, call_count, built>>

\* cap.read() fails: the loop is left.
CameraFails ==
    /\ running
    /\ running' = FALSE
    /\ UNCHANGED <<recVars, ret, logVars, deskVars, cursor_position, handled,
                   moves, frames, resets, callVars>>

(***************************************************************************)
(* SpecMain: the application as constructed by GestureControlApp(), then   *)
(* the frames of run().  The finger is tracked at two points of the camera *)
(* frame, one above the other: the upper maps to empty desktop, the lower  *)
(* to the title bar of the front-most demo window.                         *)
(***************************************************************************)
FingerPoints == {<<150, 40>>, <<150, 240>>}
FingerCounts == {0, 2, 5}
\* "" is no key.  'c' toggles show_camera, which only the display reads.
Keys == {"", "c", "r", "q"}

InitMain ==
    /\ built = WithDesktop(WithRecognizer(NotBuilt, AppHistorySize),
                           DesktopWidth, DesktopHeight)
    /\ history_size = AppHistorySize
    /\ position_history = <<>>
    /\ gesture_cooldown = 0
    /\ ret = None
    /\ since_fire = -1
    /\ supplied = <<>>
    /\ objects = NewDesktop.objects
    /\ windows = NewDesktop.windows
    /\ active_window = NewDesktop.active_window
    /\ dragging = NewDesktop.dragging
    /\ drag_offset = NewDesktop.drag_offset
    /\ status_message = NewDesktop.status_message
    /\ message_timer = NewDesktop.message_timer
    /\ cursor_position = NoPosition
    /\ running = TRUE
    /\ handled = {}
    /\ moves = 0
    /\ frames = 0
    /\ resets = 0
    /\ NoCalls

NextMain ==
    \/ \E pos \in FingerPoints \cup {NoPosition}, pinch \in BOOLEAN,
          up \in FingerCounts, key \in Keys : Frame(pos, pinch, up, key)
    \/ CameraFails

SpecMain == InitMain /\ [][NextMain]_vars

(***************************************************************************)
(* What the claims call a qualifying history, stated from the geometry.    *)
(***************************************************************************)
First(h) == h[1]
Last(h) == h[Len(h)]
Dx(h) == Last(h)[1] - First(h)[1]
Dy(h) == Last(h)[2] - First(h)[2]

PushQualifies(h, t) == Len(h) >= 5 /\ Dy(h) > t
PullQualifies(h, t) == Len(h) >= 5 /\ Dy(h) < -t

\* On LinePoints every displacement is vertical: 0 or 200 long.
LineSwipeQualifies(h, d, t) ==
    /\ Len(h) >= 5
    /\ Abs(Dy(h)) >= t
    /\ d \in {"any", IF Dy(h) > 0 THEN "down" ELSE "up"}

\* On LinePoints every segment is 0 or 200 long and the ends are 0 or 200
\* apart.
LineCircleQualifies(h, t) ==
    /\ Len(h) >= 8
    /\ 200 * Cardinality({i \in 2..Len(h) : h[i] # h[i - 1]}) >= t
    /\ First(h) = Last(h)

IsDetectStep ==
    \/ \E d \in Directions, t \in LineSwipeThresholds : DetectSwipe(d, t)
    \/ \E t \in LinePushThresholds : DetectPush(t) \/ DetectPull(t)
    \/ \E t \in LineCircleThresholds : DetectCircle(t)

(***************************************************************************)
(* C1: a firing detect_* call leaves the cooldown at 15; k update() calls  *)
(* later (no reset() in between) it is 15 - k, so it is still positive     *)
(* after each of the next 14 calls and 0 exactly at the 15th; and a        *)
(* detect_* call made then on a qualifying history fires again.            *)
(***************************************************************************)
C1_CountsDown ==
    since_fire >= 0 => gesture_cooldown = cooldown_frames - since_fire

\* What a detect_* call made in the current state returns and leaves.
SwipeNow(d, t) == detect_swipe(position_history, gesture_cooldown, d, t)
PushNow(t) == detect_push(position_history, gesture_cooldown, t)
PullNow(t) == detect_pull(position_history, gesture_cooldown, t)
CircleNow(t) == detect_circle(position_history, gesture_cooldown, t)

FiresAndArms(res) == Fired(res.ret) /\ res.cooldown = 15

C1_FiresAgain ==
    since_fire = cooldown_frames =>
        /\ \A d \in Directions, t \in LineSwipeThresholds :
              LineSwipeQualifies(position_history, d, t)
                  => FiresAndArms(SwipeNow(d, t))
        /\ \A t \in LinePushThresholds :
              PushQualifies(position_history, t) => FiresAndArms(PushNow(t))
        /\ \A t \in LinePushThresholds :
              PullQualifies(position_history, t) => FiresAndArms(PullNow(t))
        /\ \A t \in LineCircleThresholds :
              LineCircleQualifies(position_history, t)
                  => FiresAndArms(CircleNow(t))

C1_Cooldown == C1_CountsDown /\ C1_FiresAgain

\* 15 update() calls after a firing call, the cooldown is over, and the
\* history qualifies for a push once more.
C1_Witness ==
    /\ since_fire = cooldown_frames
    /\ gesture_cooldown = 0
    /\ PushQualifies(position_history, DefaultPushThreshold)

(***************************************************************************)
(* C2 (SpecMain): the cooldown is one counter for all gesture kinds.       *)
(* While it is above 0, a detect_swipe, detect_push, detect_pull or        *)
(* detect_circle call returns None / False, for every direction and every  *)
(* threshold, zero and negative ones included; it is above 0 in each of    *)
(* the 14 frames (one update() call each) after the frame of a firing      *)
(* call, so two firing calls are at least 15 update() calls apart; and one *)
(* frame of run() calls at most one of handle_swipe, handle_push and       *)
(* handle_pull.                                                            *)
(***************************************************************************)
AnySwipeThresholds == {DefaultSwipeThreshold, 0, -50}
AnyPushThresholds == {DefaultPushThreshold, 0, -50}
AnyCircleThresholds == {DefaultCircleThreshold, 0}

NothingFires ==
    /\ \A d \in Directions, t \in AnySwipeThresholds :
          SwipeNow(d, t) = Result(None, gesture_cooldown)
    /\ \A t \in AnyPushThresholds :
          /\ PushNow(t) = Result(False, gesture_cooldown)
          /\ PullNow(t) = Result(False, gesture_cooldown)
    /\ \A t \in AnyCircleThresholds :
          CircleNow(t) = Result(None, gesture_cooldown)

C2_Silent == gesture_cooldown > 0 => NothingFires

C2_Separated ==
    since_fire \in 0..(cooldown_frames - 1) =>
        gesture_cooldown > 0 /\ NothingFires

C2_OneHandler == Cardinality(handled) <= 1

Min(a, b) == IF a < b THEN a ELSE b
LastOf(s, k) == SubSeq(s, Len(s) - k + 1, Len(s))

C3_LastSupplied ==
    /\ Len(position_history) <= history_size
    /\ position_history =
           LastOf(supplied, Min(Len(supplied), history_size))

\* More positions were supplied than fit, and the two ends differ.
C3_Witness ==
    /\ history_size >= 2
    /\ Len(supplied) >= history_size + 2
    /\ Len(position_history) = history_size
    /\ First(position_history) # Last(position_history)

(***************************************************************************)
(* C4: every update() call, with or without a position, lowers a positive  *)
(* cooldown by exactly 1 and leaves a zero cooldown at 0, so the cooldown  *)
(* is always in 0..15; update(None) leaves the history as it is.           *)
(***************************************************************************)
C4_UpdateStep ==
    \A pos \in LinePoints \cup {NoPosition} :
        Update(pos) =>
            /\ gesture_cooldown > 0 => gesture_cooldown' = gesture_cooldown - 1
            /\ gesture_cooldown = 0 => gesture_cooldown' = 0
            /\ pos = NoPosition => position_history' = position_history

C4_Update == [](gesture_cooldown \in 0..15) /\ [][C4_UpdateStep]_vars

\* Part of a cooldown has been counted down by update() calls.
C4_Witness ==
    /\ ret = None
    /\ since_fire = 8
    /\ gesture_cooldown = 7

(***************************************************************************)
(* C9: a detect_* call that returns None or False leaves the cooldown as   *)
(* it is; no detect_* call changes the history; and on a history of fewer  *)
(* than 5 points (8 for detect_circle) the call returns None or False.     *)
(***************************************************************************)
C9_DetectStep ==
    IsDetectStep =>
        /\ position_history' = position_history
        /\ ~Fired(ret') => gesture_cooldown' = gesture_cooldown
        /\ Len(position_history) < 5 => ~Fired(ret')
        /\ (\E t \in LineCircleThresholds : DetectCircle(t))
             /\ Len(position_history) < 8 => ret' = None

C9_NoFireNoChange == [][C9_DetectStep]_vars

\* detect_push or detect_pull has returned False during a cooldown on a
\* history that qualifies for a pull.
C9_Witness ==
    /\ ret = False
    /\ gesture_cooldown \in 1..14
    /\ PullQualifies(position_history, DefaultPushThreshold)

(***************************************************************************)
(* C5 (SpecDetect): in every state, whatever the history and the cooldown, *)
(* a call detect_swipe(direction, threshold) returns the                   *)
(* classified direction when the history has at least 5 points, the        *)
(* displacement from the oldest to the newest point is at least threshold  *)
(* long (equality passes), the cooldown is 0 and direction is "any" or the *)
(* classified direction; it returns None in every other case.  The         *)
(* classified direction is right or left by the sign of dx when            *)
(* |dx| > |dy|, and otherwise, ties included, down when dy > 0, else up.   *)
(***************************************************************************)
ClassifiedDirection(h) ==
    CASE Abs(Dx(h)) > Abs(Dy(h)) /\ Dx(h) > 0 -> "right"
      [] Abs(Dx(h)) > Abs(Dy(h)) /\ Dx(h) < 0 -> "left"
      [] Abs(Dx(h)) <= Abs(Dy(h)) /\ Dy(h) > 0 -> "down"
      [] OTHER -> "up"

\* The length of the displacement is at least t.
MagnitudeAtLeast(h, t) == t <= 0 \/ Dx(h) * Dx(h) + Dy(h) * Dy(h) >= t * t

C5_Swipe ==
    \A d \in Directions, t \in GridSwipeThresholds :
        SwipeNow(d, t).ret =
                   IF /\ Len(position_history) >= 5
                      /\ MagnitudeAtLeast(position_history, t)
                      /\ gesture_cooldown = 0
                      /\ d \in {"any", ClassifiedDirection(position_history)}
                   THEN ClassifiedDirection(position_history)
                   ELSE None

\* A swipe has fired on a tie between the axes and was classified vertical.
C5_Witness ==
    /\ ret = "down"
    /\ gesture_cooldown = 15
    /\ Dx(position_history) = 150
    /\ Dy(position_history) = 150

(***************************************************************************)
(* C6 (SpecDetect): detect_push(threshold) returns True exactly when the   *)
(* history has at least 5 points, dy = newest.y - oldest.y is strictly     *)
(* greater than threshold and the cooldown is 0; detect_pull(threshold)    *)
(* exactly when it has at least 5 points, dy is strictly less than         *)
(* -threshold and the cooldown is 0; neither result depends on any x.      *)
(***************************************************************************)
WithoutX(h) == [i \in 1..Len(h) |-> <<0, h[i][2]>>]

C6_Returns ==
    \A t \in GridPushThresholds :
        /\ PushNow(t).ret = Truth(/\ Len(position_history) >= 5
                                  /\ Dy(position_history) > t
                                  /\ gesture_cooldown = 0)
        /\ PullNow(t).ret = Truth(/\ Len(position_history) >= 5
                                  /\ Dy(position_history) < -t
                                  /\ gesture_cooldown = 0)

C6_XFree ==
    \A t \in GridPushThresholds :
        /\ PushNow(t)
              = detect_push(WithoutX(position_history), gesture_cooldown, t)
        /\ PullNow(t)
              = detect_pull(WithoutX(position_history), gesture_cooldown, t)

C6_PushPull == C6_Returns /\ C6_XFree

\* A push has fired on a history that also moved sideways.
C6_Witness ==
    /\ ret = True
    /\ gesture_cooldown = 15
    /\ Dy(position_history) = 300
    /\ Dx(position_history) = -300

(***************************************************************************)
(* C7 (SpecDetect): for a threshold >= 0, detect_push and detect_pull on   *)
(* the same history never both return True: not even with the cooldown at  *)
(* 0 for both calls, and not when one is called right after the other.     *)
(***************************************************************************)
C7_NotBoth ==
    \A t \in {u \in GridPushThresholds : u >= 0} :
        ~ /\ detect_push(position_history, 0, t).ret = True
          /\ detect_pull(position_history, 0, t).ret = True

\* Right after a call that returned True, neither call returns True.
C7_SecondCall ==
    ret = True =>
        \A t \in GridPushThresholds :
            PushNow(t).ret = False /\ PullNow(t).ret = False

C7_PushPullExclusive == C7_NotBoth /\ C7_SecondCall

\* A pull has fired.
C7_Witness ==
    /\ ret = True
    /\ gesture_cooldown = 15
    /\ Dy(position_history) = -300

(***************************************************************************)
(* C8 (SpecCircle): detect_circle(threshold) returns an orientation        *)
(* exactly when the history has at least 8 points, the lengths of its      *)
(* consecutive segments add up to at least threshold, its two ends are     *)
(* less than 50 apart and the cooldown is 0; the orientation is clockwise  *)
(* when the sum of (x[i] - x[i-1]) * (y[i] + y[i-1]) is positive and       *)
(* counterclockwise otherwise.  In every other case it returns None.       *)
(***************************************************************************)
\* The distance between two corners of the 30-40-50 triangle.
TriangleDistance(p, q) ==
    IF p = q THEN 0
    ELSE IF p[2] = q[2] THEN 30
    ELSE IF p[1] = q[1] THEN 40
    ELSE 50

RECURSIVE PathLength(_)
PathLength(h) ==
    IF Len(h) < 2 THEN 0
    ELSE PathLength(SubSeq(h, 1, Len(h) - 1))
         + TriangleDistance(h[Len(h) - 1], h[Len(h)])

RECURSIVE ShoelaceSum(_)
ShoelaceSum(h) ==
    IF Len(h) < 2 THEN 0
    ELSE ShoelaceSum(SubSeq(h, 1, Len(h) - 1))
         + (h[Len(h)][1] - h[Len(h) - 1][1]) * (h[Len(h)][2] + h[Len(h) - 1][2])

C8_Circle ==
    \A t \in TriangleThresholds :
        CircleNow(t).ret =
                   IF /\ Len(position_history) >= 8
                      /\ PathLength(position_history) >= t
                      /\ TriangleDistance(First(position_history),
                                          Last(position_history)) < 50
                      /\ gesture_cooldown = 0
                   THEN IF ShoelaceSum(position_history) > 0
                        THEN "clockwise" ELSE "counterclockwise"
                   ELSE None

\* A clockwise circle has fired on a path exactly as long as the default
\* threshold.
C8_Witness ==
    /\ ret = "clockwise"
    /\ gesture_cooldown = 15
    /\ PathLength(position_history) = DefaultCircleThreshold

(***************************************************************************)
(* C10 (SpecWindow): for a window that is not minimized,                   *)
(* contains_point(px, py) is true exactly when x <= px <= x + width and    *)
(* y <= py <= y + height (so at the four corners, and not one unit outside *)
(* any edge), and in_title_bar(px, py) exactly when x <= px <= x + width   *)
(* and y <= py <= y + 30; for a minimized window both are false at every   *)
(* point.                                                                  *)
(***************************************************************************)
Between(lo, v, hi) == v \in lo..hi

C10_Everywhere ==
    \A px \in ProbeCoordinates, py \in ProbeCoordinates :
        LET w == TheWindow
        IN  /\ contains_point(w, px, py) =
                  /\ ~w.is_minimized
                  /\ Between(w.x, px, w.x + w.width)
                  /\ Between(w.y, py, w.y + w.height)
            /\ in_title_bar(w, px, py) =
                  /\ ~w.is_minimized
                  /\ Between(w.x, px, w.x + w.width)
                  /\ Between(w.y, py, w.y + 30)

C10_Corners ==
    LET w == TheWindow
    IN  ~w.is_minimized =>
            /\ \A px \in {w.x, w.x + w.width}, py \in {w.y, w.y + w.height} :
                  contains_point(w, px, py)
            /\ \A py \in {w.y, w.y + w.height} :
                  /\ ~contains_point(w, w.x - 1, py)
                  /\ ~contains_point(w, w.x + w.width + 1, py)
            /\ \A px \in {w.x, w.x + w.width} :
                  /\ ~contains_point(w, px, w.y - 1)
                  /\ ~contains_point(w, px, w.y + w.height + 1)

C10_HitTests == C10_Everywhere /\ C10_Corners

\* A window 20 high, at x = 20 and not minimized, has answered True to a hit
\* test.
C10_Witness ==
    /\ ret = True
    /\ ~TheWindow.is_minimized
    /\ TheWindow.x = 20
    /\ TheWindow.height = 20

(***************************************************************************)
(* C11 (SpecDesktop): a handle_cursor(x, y, is_pinching) call starts a     *)
(* drag (dragging goes from False to True) exactly when is_pinching is     *)
(* True, dragging was False and the front-most window (the last of         *)
(* windows) among those containing (x, y) has (x, y) in its title bar.  A  *)
(* pinch anywhere else, in particular in the body of the front-most window *)
(* under the cursor, be it over the title bar of a window behind it,       *)
(* starts no drag and changes neither active_window nor the order of       *)
(* windows.                                                                *)
(***************************************************************************)
Covers(o, x, y) ==
    /\ Between(objects[o].x, x, objects[o].x + objects[o].width)
    /\ Between(objects[o].y, y, objects[o].y + objects[o].height)

\* The positions in windows of the windows that contain (x, y).
Under(x, y) == {i \in DOMAIN windows : Covers(windows[i], x, y)}

FrontUnder(x, y) ==
    windows[CHOOSE i \in Under(x, y) : \A j \in Under(x, y) : j <= i]

OnFrontTitleBar(x, y) ==
    /\ Under(x, y) # {}
    /\ y <= objects[FrontUnder(x, y)].y + 30

C11_Step ==
    \A p \in CursorPoints, is_pinching \in BOOLEAN :
        HandleCursor(p[1], p[2], is_pinching) =>
            /\ (~dragging /\ dragging') <=>
                    (is_pinching /\ ~dragging /\ OnFrontTitleBar(p[1], p[2]))
            /\ is_pinching /\ ~OnFrontTitleBar(p[1], p[2]) =>
                    /\ dragging' = dragging
                    /\ active_window' = active_window
                    /\ windows' = windows

C11_DragStart == [][C11_Step]_vars

\* Music (object 3) was dragged up so that its body lies over the title bar
\* of Browser (object 2); a pinch there has started no drag.
C11_Witness ==
    /\ last_call = [NoCall EXCEPT !.op = "handle_cursor", !.x = 460,
                                  !.y = 175, !.is_pinching = TRUE]
    /\ ~dragging
    /\ windows = <<1, 2, 3>>
    /\ objects[3].y = 140
    /\ objects[2].y = 150
    /\ Covers(2, 460, 175)

(***************************************************************************)
(* C12 (SpecDesktop): a drag is rigid.  If a drag started with the cursor  *)
(* at (x0, y0) on a window at (wx, wy), then after every                   *)
(* handle_cursor(x, y, True) call made while the drag lasts the dragged    *)
(* window is at exactly (wx + x - x0, wy + y - y0), so the call that       *)
(* starts the drag leaves it where it is; and drag_offset stays            *)
(* (x0 - wx, y0 - wy) as long as the drag lasts.                           *)
(***************************************************************************)
C12_Position ==
    dragging /\ last_call.op = "handle_cursor" =>
        /\ objects[active_window].x = grabbed[3] + last_call.x - grabbed[1]
        /\ objects[active_window].y = grabbed[4] + last_call.y - grabbed[2]

C12_Offset ==
    dragging =>
        drag_offset = <<grabbed[1] - grabbed[3], grabbed[2] - grabbed[4]>>

C12_RigidDrag == C12_Position /\ C12_Offset

\* Music, grabbed at (460, 360) while at (250, 350), is at (250, 165) after
\* the fourth call, which has dragged it to (460, 175).
C12_Witness ==
    /\ dragging
    /\ grabbed = <<460, 360, 250, 350>>
    /\ last_call = [NoCall EXCEPT !.op = "handle_cursor", !.x = 460,
                                  !.y = 175, !.is_pinching = TRUE]
    /\ call_count = 4
    /\ objects[active_window].y = 165

(***************************************************************************)
(* C13 (SpecDesktop): a handle_cursor call with is_pinching = False sets   *)
(* dragging to False and moves no window, wherever the cursor is.  From    *)
(* then on dragging stays False, and no handle_cursor call moves a window, *)
(* until a call with is_pinching = True lands on the title bar of the      *)
(* front-most window under the cursor.                                     *)
(***************************************************************************)
NoWindowMoves ==
    \A o \in DOMAIN objects :
        /\ o \in DOMAIN objects'
        /\ objects'[o].x = objects[o].x
        /\ objects'[o].y = objects[o].y

C13_Step ==
    /\ \A p \in CursorPoints, is_pinching \in BOOLEAN :
          HandleCursor(p[1], p[2], is_pinching) =>
              /\ ~is_pinching => ~dragging' /\ NoWindowMoves
              /\ ~dragging /\ ~(is_pinching /\ OnFrontTitleBar(p[1], p[2]))
                    => ~dragging' /\ NoWindowMoves
    /\ last_call'.op # "handle_cursor" => dragging' = dragging

C13_Release == [][C13_Step]_vars

\* Music was dragged up to (250, 140) and then released with the cursor on
\* empty desktop: it has stayed where the drag left it.
C13_Witness ==
    /\ last_call = [NoCall EXCEPT !.op = "handle_cursor", !.x = 900,
                                  !.y = 600]
    /\ ~dragging
    /\ grabbed = <<460, 360, 250, 350>>
    /\ objects[3].y = 140

(***************************************************************************)
(* C14 (SpecDesktop): the call that starts a drag moves the grabbed window *)
(* to the end of windows and keeps the relative order of the others; no    *)
(* other handler call changes windows; and as long as there was no reset,  *)
(* windows is a permutation of the same three windows, none lost and none  *)
(* twice.                                                                  *)
(***************************************************************************)
Position(seq, o) == CHOOSE i \in DOMAIN seq : seq[i] = o

C14_Permutation ==
    resets = 0 =>
        /\ Len(windows) = 3
        /\ {windows[i] : i \in 1..3} = {1, 2, 3}
        /\ {objects[o].title : o \in {1, 2, 3}}
               = {"Notes", "Browser", "Music"}

C14_Step ==
    IF ~dragging /\ dragging'
    THEN /\ windows'[Len(windows')] = active_window'
         /\ Len(windows') = Len(windows)
         /\ \A a, b \in Range(windows) \ {active_window'} :
               /\ a \in Range(windows') /\ b \in Range(windows')
               /\ Position(windows, a) < Position(windows, b)
                     <=> Position(windows', a) < Position(windows', b)
    ELSE last_call'.op # "reset" => windows' = windows

C14_Order == []C14_Permutation /\ [][C14_Step]_vars

\* Browser, in the middle of the three, was grabbed: it is now the last, with
\* Notes still before Music.
C14_Witness ==
    /\ windows = <<1, 3, 2>>
    /\ dragging
    /\ active_window = 2
    /\ resets = 0

(***************************************************************************)
(* C15 (SpecDesktop): in every reachable state of the desktop, after any   *)
(* sequence of handle_cursor, handle_swipe, handle_push, handle_pull and   *)
(* reset, active_window is unset or is one of the windows in windows.      *)
(***************************************************************************)
C15_ActiveInWindows ==
    active_window = NoWindow \/ active_window \in Range(windows)

(***************************************************************************)
(* C16 (SpecDesktop): in every reachable state of the desktop, after any   *)
(* sequence of handle_cursor, handle_swipe, handle_push, handle_pull and   *)
(* reset, at most one of the windows in windows has is_active = True.      *)
(***************************************************************************)
C16_OneActive ==
    Cardinality({i \in DOMAIN windows : objects[windows[i]].is_active}) <= 1

\* Music was made active by a swipe and moved by the next one; then Browser
\* was grabbed, and is the only active window.
C16_Witness ==
    /\ resets = 0
    /\ objects[3].x # 250
    /\ ~objects[3].is_active
    /\ objects[2].is_active
    /\ active_window = 2

(***************************************************************************)
(* C17 (SpecDesktop): a reset from any reachable state, in the middle of a *)
(* drag or with an active window too, leaves exactly the three demo        *)
(* windows at their preset geometry, no active window and dragging False.  *)
(***************************************************************************)
C17_DemoWindows ==
    /\ Len(windows) = 3
    /\ objects[windows[1]] = VirtualWindow(100, 100, 300, 200, "Notes")
    /\ objects[windows[2]] = VirtualWindow(450, 150, 350, 250, "Browser")
    /\ objects[windows[3]] = VirtualWindow(250, 350, 280, 180, "Music")

C17_Reset ==
    last_call.op = "reset" =>
        /\ C17_DemoWindows
        /\ active_window = NoWindow
        /\ ~dragging

(***************************************************************************)
(* C18 (SpecDesktop): handle_swipe(direction) with an active window moves  *)
(* that window by exactly 50 in the direction (left: x - 50, right:        *)
(* x + 50, up: y - 50, down: y + 50), without clamping, sets the status    *)
(* message and its timer, and leaves the size of the window, every other   *)
(* window, the order of windows, dragging and active_window as they were.  *)
(***************************************************************************)
Shifted(w, direction) ==
    CASE direction = "left" -> [w EXCEPT !.x = w.x - 50]
      [] direction = "right" -> [w EXCEPT !.x = w.x + 50]
      [] direction = "up" -> [w EXCEPT !.y = w.y - 50]
      [] direction = "down" -> [w EXCEPT !.y = w.y + 50]

C18_Step ==
    \A direction \in SwipeDirections :
        HandleSwipe(direction) /\ active_window # NoWindow =>
            /\ objects' = [objects EXCEPT ![active_window] =
                                           Shifted(@, direction)]
            /\ status_message'
                  = <<"Moved", objects[active_window].title, direction>>
            /\ message_timer' = 60
            /\ windows' = windows
            /\ dragging' = dragging
            /\ active_window' = active_window
            /\ drag_offset' = drag_offset

C18_Swipe == [][C18_Step]_vars

\* Music, dragged up to y = 140, was swiped up three times: it is above the
\* top edge of the desktop.
C18_Witness ==
    /\ last_call = [NoCall EXCEPT !.op = "handle_swipe", !.direction = "up"]
    /\ active_window = 3
    /\ objects[3].y = -10
    /\ objects[3].x = 250
    /\ message_timer = 60

(***************************************************************************)
(* C19 (SpecDesktop): handle_swipe with no active window, and at least one *)
(* window, makes the top-most window (the last of windows) the active      *)
(* window and marks it active, and that is all: no window moves, the order *)
(* of windows stays, no status message is set.  The window moves only on a *)
(* later swipe.                                                            *)
(***************************************************************************)
C19_Step ==
    \A direction \in SwipeDirections :
        HandleSwipe(direction) /\ active_window = NoWindow
                               /\ windows # <<>> =>
            /\ active_window' = windows[Len(windows)]
            /\ objects' = [objects EXCEPT ![windows[Len(windows)]] =
                                           [@ EXCEPT !.is_active = TRUE]]
            /\ windows' = windows
            /\ status_message' = status_message
            /\ message_timer' = message_timer
            /\ dragging' = dragging

\* While there is no active window, every window is as it was constructed.
C19_NotYetMoved ==
    active_window = NoWindow =>
        \A o \in Range(windows) :
            objects[o] = [DemoWindows[o] EXCEPT !.is_active = FALSE]

C19_FirstSwipe == []C19_NotYetMoved /\ [][C19_Step]_vars

\* The first call was a swipe to the left: Music is active, and where it was.
C19_Witness ==
    /\ last_call = [NoCall EXCEPT !.op = "handle_swipe",
                                  !.direction = "left"]
    /\ call_count = 1
    /\ active_window = 3
    /\ objects[3] = [DemoWindows[3] EXCEPT !.is_active = TRUE]
    /\ message_timer = 0

(***************************************************************************)
(* C20 (SpecDesktop): handle_push with an active window sets its width to  *)
(* min(width + 50, 600) and its height to min(height + 40, 400);           *)
(* handle_pull sets them to max(width - 50, 200) and max(height - 40,      *)
(* 150).  Both leave the position of the window and every other window as  *)
(* they were.  With no active window each changes nothing at all: no       *)
(* geometry, and neither the status message nor its timer.                 *)
(***************************************************************************)
Grown(w) ==
    [w EXCEPT !.width = IF w.width + 50 < 600 THEN w.width + 50 ELSE 600,
              !.height = IF w.height + 40 < 400 THEN w.height + 40 ELSE 400]

Shrunk(w) ==
    [w EXCEPT !.width = IF w.width - 50 > 200 THEN w.width - 50 ELSE 200,
              !.height = IF w.height - 40 > 150 THEN w.height - 40 ELSE 150]

C20_Step ==
    /\ HandlePush /\ active_window # NoWindow =>
          objects' = [objects EXCEPT ![active_window] = Grown(@)]
    /\ HandlePull /\ active_window # NoWindow =>
          objects' = [objects EXCEPT ![active_window] = Shrunk(@)]
    /\ (HandlePush \/ HandlePull) /\ active_window = NoWindow =>
          UNCHANGED deskVars

C20_PushPull == [][C20_Step]_vars

\* Browser, 350 by 250, was grabbed and pushed four times: the fourth push
\* stopped its height at 400.
C20_Witness ==
    /\ last_call = [NoCall EXCEPT !.op = "handle_push"]
    /\ active_window = 2
    /\ objects[2].width = 550
    /\ objects[2].height = 400
    /\ objects[2].x = 450
    /\ objects[2].y = 150

(***************************************************************************)
(* C21 (SpecResize): whatever is called on the demo desktop, every window  *)
(* has 200 <= width <= 600 and 150 <= height <= 400.  A push below the cap *)
(* grows the active window and a pull above the floor shrinks it, so       *)
(* repeated pushes end at 600 x 400 and repeated pulls at 200 x 150; a     *)
(* push at 600 x 400 and a pull at 200 x 150 leave the size as it is.      *)
(***************************************************************************)
C21_InBounds ==
    \A o \in DOMAIN objects :
        /\ Between(200, objects[o].width, 600)
        /\ Between(150, objects[o].height, 400)

Area(w) == w.width * w.height

C21_Step ==
    LET before == objects[active_window]
        after == objects'[active_window]
    IN  /\ PushAgain /\ active_window # NoWindow =>
              /\ after.width >= before.width /\ after.height >= before.height
              /\ Area(after) = Area(before)
                    <=> before.width = 600 /\ before.height = 400
        /\ PullAgain /\ active_window # NoWindow =>
              /\ after.width <= before.width /\ after.height <= before.height
              /\ Area(after) = Area(before)
                    <=> before.width = 200 /\ before.height = 150

C21_Sizes == []C21_InBounds /\ [][C21_Step]_vars

\* Browser was grabbed and pushed five times, to 600 x 400; the sixth push
\* has left it at that.
C21_Witness ==
    /\ last_call = [NoCall EXCEPT !.op = "handle_push"]
    /\ call_count = 7
    /\ active_window = 2
    /\ objects[2].width = 600
    /\ objects[2].height = 400

(***************************************************************************)
(* C22 (SpecConstruct): constructing a GestureRecognizer with a capacity   *)
(* of zero or less, or a VirtualDesktop with a width or a height of zero   *)
(* or less, fails with an error and leaves no object to use.               *)
(***************************************************************************)
C22_FailsFast ==
    /\ built.history_size <= 0 => built.recognizer # "ok"
    /\ built.width <= 0 \/ built.height <= 0 => built.desktop # "ok"

(***************************************************************************)
(* C23 (SpecDesktop): as long as there was no reset, active_window, when   *)
(* set, is the last of windows (the front-most window) and is the one      *)
(* window whose is_active is True; while it is unset, no window has        *)
(* is_active True.  Once set, active_window is never unset again, whatever *)
(* is called.                                                              *)
(***************************************************************************)
ActiveOnes == {o \in Range(windows) : objects[o].is_active}

C23_FrontMost ==
    resets = 0 =>
        IF active_window = NoWindow
        THEN ActiveOnes = {}
        ELSE /\ windows[Len(windows)] = active_window
             /\ ActiveOnes = {active_window}

C23_StaysSet == active_window # NoWindow => active_window' # NoWindow

C23_ActiveWindow == []C23_FrontMost /\ [][C23_StaysSet]_vars

\* Browser was grabbed where it stood, which put it in front of Music, and
\* has been pulled since: it is the active window and the last of windows.
C23_Witness ==
    /\ resets = 0
    /\ windows = <<1, 3, 2>>
    /\ active_window = 2
    /\ grabbed = <<460, 150, 450, 150>>
    /\ last_call.op = "handle_pull"
    /\ call_count >= 3

(***************************************************************************)
(* C24 (SpecMain): a frame of run() with fingers_up = 5 calls neither      *)
(* handle_push nor handle_pull.  With the default thresholds (swipe 100,   *)
(* push and pull 150), on every history and cooldown on which              *)
(* detect_push() or detect_pull() would fire, the detect_swipe() call the  *)
(* frame makes first fires and arms the cooldown they share.               *)
(***************************************************************************)
C24_Step ==
    \A pos \in FingerPoints, is_pinching \in BOOLEAN, key \in Keys :
        Frame(pos, is_pinching, 5, key) =>
            handled' \cap {"handle_push", "handle_pull"} = {}

C24_SwipeFirst ==
    Fired(PushNow(DefaultPushThreshold).ret)
        \/ Fired(PullNow(DefaultPushThreshold).ret)
    => FiresAndArms(SwipeNow("any", DefaultSwipeThreshold))

C24_OpenHand == []C24_SwipeFirst /\ [][C24_Step]_vars

\* An open hand was moved up by more than the pull threshold: the frame has
\* called handle_swipe, and handle_pull not.
C24_Witness ==
    /\ handled = {"handle_swipe"}
    /\ since_fire = 0
    /\ PullQualifies(position_history, DefaultPushThreshold)

(***************************************************************************)
(* C25 (SpecMain): a drag does not survive a frame of run() in which the   *)
(* tracker sees no hand.  Such a frame leaves cursor_position as it was;   *)
(* if a position is known it calls handle_cursor with that position and    *)
(* is_pinching False, otherwise it does not call handle_cursor; dragging   *)
(* is False when it ends.  As long as cursor_position is None, that is     *)
(* before any hand was seen, handle_cursor has not been called and         *)
(* dragging is False.                                                      *)
(***************************************************************************)
C25_Step ==
    \A key \in Keys :
        Frame(NoPosition, FALSE, 0, key) =>
            /\ cursor_position' = cursor_position
            /\ ~dragging'
            /\ finger' = NoPosition

C25_NoHand ==
    finger = NoPosition =>
        /\ ~dragging
        /\ last_call =
               IF cursor_position = NoPosition THEN NoCall
               ELSE [NoCall EXCEPT !.op = "handle_cursor",
                                   !.x = cursor_position[1],
                                   !.y = cursor_position[2],
                                   !.is_pinching = FALSE]

C25_NeverSeen ==
    cursor_position = NoPosition => ~dragging /\ last_call = NoCall

C25_DragEnds == [](C25_NoHand /\ C25_NeverSeen) /\ [][C25_Step]_vars

\* Two frames: the first grabbed Music by its title bar, 50 right of and 10
\* below its corner; in the second the hand was gone, handle_cursor was
\* called at the same point without pinch, and the drag is over.
C25_Witness ==
    /\ frames = 2
    /\ finger = NoPosition
    /\ drag_offset = <<50, 10>>
    /\ active_window = 3
    /\ cursor_position = <<300, 360>>
    /\ last_call = [NoCall EXCEPT !.op = "handle_cursor", !.x = 300,
                                  !.y = 360, !.is_pinching = FALSE]
    /\ ~dragging

(***************************************************************************)
(* C26 (SpecDesktop): gesture handlers called during a drag do not break   *)
(* it.  While dragging is True, handle_swipe shifts the dragged window by  *)
(* 50 in its direction, and handle_swipe, handle_push and handle_pull      *)
(* leave dragging, drag_offset and active_window as they were; the next    *)
(* handle_cursor(x, y, True) call puts the dragged window at exactly       *)
(* (x - drag_offset[0], y - drag_offset[1]) and keeps the drag, so what    *)
(* the swipe added to the position is gone.                                *)
(***************************************************************************)
C26_DragKept ==
    /\ dragging' = dragging
    /\ drag_offset' = drag_offset
    /\ active_window' = active_window

C26_Step ==
    dragging =>
        /\ active_window # NoWindow
        /\ \A direction \in SwipeDirections :
               HandleSwipe(direction) =>
                   /\ C26_DragKept
                   /\ objects'[active_window]
                          = Shifted(objects[active_window], direction)
        /\ HandlePush \/ HandlePull => C26_DragKept
        /\ \A p \in CursorPoints :
               HandleCursor(p[1], p[2], TRUE) =>
                   /\ C26_DragKept
                   /\ objects'[active_window].x = p[1] - drag_offset[1]
                   /\ objects'[active_window].y = p[2] - drag_offset[2]

C26_Interleaved == [][C26_Step]_vars

\* Three calls: Music was grabbed at (460, 360) while at (250, 350), swiped
\* left to x = 200 during the drag, and the pinching cursor, still at
\* (460, 360), has put it back at (250, 350).
C26_Witness ==
    /\ call_count = 3
    /\ dragging
    /\ grabbed = <<460, 360, 250, 350>>
    /\ drag_offset = <<210, 10>>
    /\ status_message = <<"Moved", objects[active_window].title, "left">>
    /\ last_call = [NoCall EXCEPT !.op = "handle_cursor", !.x = 460,
                                  !.y = 360, !.is_pinching = TRUE]
    /\ objects[active_window].x = 250
    /\ objects[active_window].y = 350

====
